---- MODULE Spec2Model ----
(***************************************************************************)
(* The desktopCapturer suite of spec-main/api-desktop-capturer-spec.ts,    *)
(* run against the capture engine and the window system it drives.         *)
(* The suite (the nine tests, the getSources wrapper, before/after) is     *)
(* translated from the source file.  The engine (getSources in the         *)
(* renderer), the window system (show, focus, moveAbove, destroy) and the  *)
(* display list are outside the file and are modelled from the contract    *)
(* the specification gives for them; where neither the file nor the        *)
(* contract fixes an outcome, the outcome is a nondeterministic choice.    *)
(***************************************************************************)
EXTENDS Integers, Sequences, FiniteSets, TLC

VARIABLES
    platform,       \* process.platform
    arch,           \* process.arch
    featureEnabled, \* features.isDesktopCapturerEnabled()
    displays,       \* screen.getAllDisplays(): sequence of display ids
    nextWin,        \* id the next BrowserWindow gets
    alive,          \* BrowserWindows constructed and not destroyed
    stack,          \* visible windows of the desktop, foreground first
    focusQ,         \* focus() requests the window system has not served yet
    wFocused,       \* T8: the promise emittedOnce(w, 'focus') has resolved
    destroyCalls,   \* per window: destroy() calls made by test bodies
    reqs,           \* the getSources promises not yet consumed, oldest first
    pc,             \* position of the mocha runner
    awaiting,       \* index in reqs of the promise the current test awaits
    mainWindow,     \* the suite's shared window w (0 before `before` ran)
    tw,             \* the window local to the current test (0: none)
    wList,          \* moveAbove test: wList
    sources,        \* moveAbove test: `sources` after the latest splice
    sources1,       \* moveAbove test: the first query's list after splice
    mediaSourceId,  \* T8: w.getMediaSourceId()
    displaysSeen,   \* T6: `displays`
    canGoFurther,   \* moveAbove test: "unset", "yes", "no"
    moved,          \* moveAbove test: the reorder loop has run
    outcome,        \* per test: "notrun", "pass", "fail", "skip", "timeout"
    asserted        \* tests whose expectations on a source list were evaluated

vars == << platform, arch, featureEnabled, displays, nextWin, alive, stack,
           focusQ, wFocused, destroyCalls, reqs, pc, awaiting, mainWindow,
           tw, wList, sources, sources1, mediaSourceId, displaysSeen,
           canGoFurther, moved, outcome, asserted >>

envVars  == << platform, arch, featureEnabled, displays >>
winVars  == << nextWin, alive, stack, focusQ, wFocused, destroyCalls >>
testVars == << wList, sources, sources1, mediaSourceId, displaysSeen,
               canGoFurther, moved >>

----------------------------------------------------------------------------
(* Bounds of the model *)

MaxDisplays == 2        \* displays attached to the machine
MaxForeign  == 1        \* windows of other applications on the desktop

(* Program constant *)
MAX_WIN == 4

Platforms  == {"darwin", "linux", "win32"}
Archs      == {"x64", "arm64"}
AllDisplays == << 12, 5, 107, 9 >>   \* the ids displays get, in Screen order
Tests      == {"T1", "T2", "T3", "T4", "T5", "T6", "T7", "T8", "T9"}

----------------------------------------------------------------------------
(* Sequence helpers *)

Min(a, b) == IF a < b THEN a ELSE b

Range(s) == { s[i] : i \in DOMAIN s }

Reverse(s) == [ i \in 1..Len(s) |-> s[Len(s) + 1 - i] ]

Without(s, x) == SelectSeq(s, LAMBDA y : y # x)

IndexOf(s, x) == CHOOSE i \in 1..Len(s) : s[i] = x

\* Number.prototype.toString(): the decimal digits, most significant first.
RECURSIVE NumToString(_)
NumToString(n) ==
    IF n < 10 THEN << n >> ELSE Append(NumToString(n \div 10), n % 10)

\* Array.prototype.splice(start, deleteCount) as the test uses it: a negative
\* deleteCount removes nothing.
Splice(s, start) == SubSeq(s, 1, Min(Len(s), start))

----------------------------------------------------------------------------
(* Option values the tests pass *)

Size(w, h) == [width |-> w, height |-> h]

NoSize == Size(0 - 1, 0 - 1)      \* stands for an absent thumbnailSize

TypesOnly(types) ==
    [tag |-> "object", items |-> << >>, hasTypes |-> TRUE, types |-> types,
     hasThumb |-> FALSE, thumb |-> NoSize]

TypesAndThumb(types, size) ==
    [tag |-> "object", items |-> << >>, hasTypes |-> TRUE, types |-> types,
     hasThumb |-> TRUE, thumb |-> size]

BareArray(items) ==
    [tag |-> "array", items |-> items, hasTypes |-> FALSE, types |-> << >>,
     hasThumb |-> FALSE, thumb |-> NoSize]

\* JSON.stringify(options): an array is written as an array literal, an
\* object as an object literal holding only the properties that are present.
JSONStringify(v) ==
    IF v.tag = "array"
    THEN [lit |-> "[]", elems |-> v.items, keys |-> << >>,
          types |-> << >>, thumb |-> NoSize]
    ELSE [lit |-> "{}", elems |-> << >>,
          keys |-> (IF v.hasTypes THEN << "types" >> ELSE << >>)
                   \o (IF v.hasThumb THEN << "thumbnailSize" >> ELSE << >>),
          types |-> (IF v.hasTypes THEN v.types ELSE << >>),
          thumb |-> (IF v.hasThumb THEN v.thumb ELSE NoSize)]

\* The renderer evaluating the literal spliced into the script.
EvalLiteral(t) ==
    IF t.lit = "[]"
    THEN BareArray(t.elems)
    ELSE [tag |-> "object", items |-> << >>,
          hasTypes |-> ("types" \in Range(t.keys)), types |-> t.types,
          hasThumb |-> ("thumbnailSize" \in Range(t.keys)), thumb |-> t.thumb]

----------------------------------------------------------------------------
(* The capture engine, from its contract *)

\* Invalid options: anything without a `types` list.
isValid(options) == options.tag = "object" /\ options.hasTypes

DefaultThumbnailSize == Size(150, 150)

Thumbnail(options) ==
    LET size == IF options.hasThumb THEN options.thumb ELSE DefaultThumbnailSize
    IN  [ctor |-> "NativeImage", isEmpty |-> (size.width = 0 /\ size.height = 0)]

getMediaSourceId(w) == << "window", w, 0 >>

WindowSources(options, stk) ==
    [ i \in 1..Len(stk) |->
        [id |-> getMediaSourceId(stk[i]), display_id |-> << >>,
         thumbnail |-> Thumbnail(options)] ]

ScreenSources(options, plat, disp) ==
    [ i \in 1..Len(disp) |->
        [id |-> << "screen", disp[i], 0 >>,
         display_id |-> IF plat \in {"win32", "darwin"}
                        THEN NumToString(disp[i]) ELSE << >>,
         thumbnail |-> Thumbnail(options)] ]

\* The list a valid query resolves with; `wins` is the window part.
SourceList(options, wins, plat, disp) ==
    (IF "window" \in Range(options.types) THEN wins ELSE << >>)
    \o (IF "screen" \in Range(options.types)
        THEN ScreenSources(options, plat, disp) ELSE << >>)

----------------------------------------------------------------------------
(* The window system, from its contract *)

ForeignWindows(n) == [ i \in 1..n |-> 0 - i ]

ShowOnTop(stk, w) == << w >> \o Without(stk, w)

\* win.moveAbove(mediaSourceId): w goes directly above the window the id names.
MoveAboveStack(stk, w, id) ==
    LET target == id[2]
        rest   == Without(stk, w)
    IN  IF w = target \/ w \notin Range(stk) \/ target \notin Range(stk)
        THEN stk
        ELSE LET k == IndexOf(rest, target)
             IN  SubSeq(rest, 1, k - 1) \o << w >> \o SubSeq(rest, k, Len(rest))

\* win.destroy() on each window of ws but main, in order (the forEach of lines
\* 164-168 and 215-219).  st is the window state so far.  A destroy() on a
\* window already destroyed either does nothing or throws (`throws`), which
\* ends the loop.
RECURSIVE DestroyAll(_, _, _, _)
DestroyAll(ws, main, st, throws) ==
    IF ws = << >> \/ st.threw THEN st
    ELSE LET w == Head(ws)
         IN  IF w = main THEN DestroyAll(Tail(ws), main, st, throws)
             ELSE IF w \in st.alive
             THEN DestroyAll(Tail(ws), main,
                     [alive  |-> st.alive \ {w},
                      stack  |-> Without(st.stack, w),
                      focusQ |-> Without(st.focusQ, w),
                      calls  |-> [st.calls EXCEPT ![w] = @ + 1],
                      threw  |-> FALSE], throws)
             ELSE DestroyAll(Tail(ws), main,
                     [st EXCEPT !.calls = [st.calls EXCEPT ![w] = @ + 1],
                                !.threw = throws], throws)

WinState == [alive |-> alive, stack |-> stack, focusQ |-> focusQ,
             calls |-> destroyCalls, threw |-> FALSE]

----------------------------------------------------------------------------
(* The suite *)

ArchIncludesArm(a) == a \in {"arm", "arm64"}

\* Variant: the condition without its win32 clause.
SuiteEnabledOnWin32 ==
    featureEnabled /\ ~ArchIncludesArm(arch)

\* The condition ifdescribe is given (line 9).
SuiteEnabled ==
    featureEnabled /\ ~ArchIncludesArm(arch) /\ platform # "win32"

\* Variant: the wrapper hands the engine options.types instead of options.
getSourcesTypesOnly(options, by, no) ==
    [opts |-> EvalLiteral(JSONStringify(BareArray(options.types))),
     by |-> by, no |-> no,
     state |-> "pending", value |-> << >>, error |-> "none"]

\* The suite's getSources (lines 17-21): the options go through
\* JSON.stringify into a script the renderer evaluates; `by` and `no` record
\* which test made the call.
getSources(options, by, no) ==
    [opts |-> EvalLiteral(JSONStringify(options)), by |-> by, no |-> no,
     state |-> "pending", value |-> << >>, error |-> "none"]

\* w.webContents.executeJavaScript of a script holding the options literally.
executeGetSources(options, by, no) ==
    [opts |-> options, by |-> by, no |-> no,
     state |-> "pending", value |-> << >>, error |-> "none"]

Settled(i)  == reqs[i].state # "pending"
Rejected(i) == reqs[i].state = "rejected"

\* The awaited promise hands over its result and is not referenced any more.
Consumed == SubSeq(reqs, 1, awaiting - 1) \o SubSeq(reqs, awaiting + 1, Len(reqs))

\* new BrowserWindow(...), followed by show() when `show`: the window state
\* afterwards.
NewWindow(show) ==
    /\ nextWin' = nextWin + 1
    /\ alive' = alive \cup {nextWin}
    /\ destroyCalls' = Append(destroyCalls, 0)
    /\ stack' = IF show THEN ShowOnTop(stack, nextWin) ELSE stack

\* The window state st becomes the state.
Install(st) ==
    /\ alive' = st.alive
    /\ stack' = st.stack
    /\ focusQ' = st.focusQ
    /\ destroyCalls' = st.calls

Init ==
    /\ platform \in Platforms
    /\ arch \in Archs
    /\ featureEnabled \in BOOLEAN
    /\ \E n \in 1..MaxDisplays : displays = SubSeq(AllDisplays, 1, n)
    /\ \E n \in 0..MaxForeign : stack = ForeignWindows(n)
    /\ nextWin = 1
    /\ alive = {}
    /\ focusQ = << >>
    /\ wFocused = FALSE
    /\ destroyCalls = << >>
    /\ reqs = << >>
    /\ pc = "start"
    /\ awaiting = 0
    /\ mainWindow = 0
    /\ tw = 0
    /\ wList = << >>
    /\ sources = << >>
    /\ sources1 = << >>
    /\ mediaSourceId = << >>
    /\ displaysSeen = << >>
    /\ canGoFurther = "unset"
    /\ moved = FALSE
    /\ outcome = [ t \in Tests |-> "notrun" ]
    /\ asserted = {}

Finish(test, result, next) ==
    /\ outcome' = [outcome EXCEPT ![test] = result]
    /\ pc' = next

\* ifdescribe(false): the suite is declared with describe.skip.
SuiteDisabled ==
    /\ UNCHANGED asserted
    /\ pc = "start"
    /\ ~SuiteEnabled
    /\ pc' = "done"
    /\ UNCHANGED << envVars, winVars, testVars, reqs, awaiting, mainWindow,
                    tw, outcome >>

\* before (lines 11-14): the shared hidden window.
Before ==
    /\ UNCHANGED asserted
    /\ pc = "start"
    /\ SuiteEnabled
    /\ mainWindow' = nextWin
    /\ NewWindow(FALSE)
    /\ pc' = "T1"
    /\ UNCHANGED << envVars, focusQ, wFocused, testVars, reqs, awaiting, tw,
                    outcome >>

----------------------------------------------------------------------------
(* 'should return a non-empty array of sources' (lines 23-26) *)

T1Options == TypesOnly(<< "window", "screen" >>)

T1Issue ==
    /\ UNCHANGED asserted
    /\ pc = "T1"
    /\ reqs' = Append(reqs, getSources(T1Options, "T1", 1))
    /\ awaiting' = Len(reqs) + 1
    /\ pc' = "T1a"
    /\ UNCHANGED << envVars, winVars, testVars, mainWindow, tw, outcome >>

T1Resume ==
    /\ UNCHANGED asserted
    /\ pc = "T1a"
    /\ Settled(awaiting)
    /\ Finish("T1", IF ~Rejected(awaiting) /\ reqs[awaiting].value # << >>
                    THEN "pass" ELSE "fail", "T2")
    /\ reqs' = Consumed
    /\ awaiting' = 0
    /\ UNCHANGED << envVars, winVars, testVars, mainWindow, tw >>

(* 'throws an error for invalid options' (lines 28-31): the expectation on
   the promise is neither awaited nor returned, so the test ends at once. *)

\* Variant: the test passes a well-formed options object.
T2OptionsAsObject == TypesOnly(<< "window", "screen" >>)

T2Options == BareArray(<< "window", "screen" >>)

T2 ==
    /\ UNCHANGED asserted
    /\ pc = "T2"
    /\ reqs' = Append(reqs, getSources(T2Options, "T2", 1))
    /\ Finish("T2", "pass", "T3")
    /\ UNCHANGED << envVars, winVars, testVars, awaiting, mainWindow, tw >>

(* 'does not throw an error when called more than once' (lines 33-39) *)

\* Variant: the test asks for no type at all.
T3OptionsNoTypes == TypesOnly(<< >>)

T3Options == TypesOnly(<< "window", "screen" >>)

T3Issue ==
    /\ UNCHANGED asserted
    /\ pc = "T3"
    /\ reqs' = Append(reqs, getSources(T3Options, "T3", 1))
    /\ awaiting' = Len(reqs) + 1
    /\ pc' = "T3a"
    /\ UNCHANGED << envVars, winVars, testVars, mainWindow, tw, outcome >>

T3Resume1 ==
    /\ UNCHANGED asserted
    /\ pc = "T3a"
    /\ Settled(awaiting)
    /\ IF Rejected(awaiting) \/ reqs[awaiting].value = << >>
       THEN /\ Finish("T3", "fail", "T4")
            /\ reqs' = Consumed
            /\ awaiting' = 0
       ELSE /\ reqs' = Append(Consumed, getSources(T3Options, "T3", 2))
            /\ awaiting' = Len(reqs)
            /\ pc' = "T3b"
            /\ UNCHANGED outcome
    /\ UNCHANGED << envVars, winVars, testVars, mainWindow, tw >>

T3Resume2 ==
    /\ UNCHANGED asserted
    /\ pc = "T3b"
    /\ Settled(awaiting)
    /\ Finish("T3", IF ~Rejected(awaiting) /\ reqs[awaiting].value # << >>
                    THEN "pass" ELSE "fail", "T4")
    /\ reqs' = Consumed
    /\ awaiting' = 0
    /\ UNCHANGED << envVars, winVars, testVars, mainWindow, tw >>

(* 'responds to subsequent calls of different options' (lines 41-47): both
   calls are made before either settles, and neither is awaited. *)

T4 ==
    /\ UNCHANGED asserted
    /\ pc = "T4"
    /\ reqs' = reqs \o << getSources(TypesOnly(<< "window" >>), "T4", 1),
                          getSources(TypesOnly(<< "screen" >>), "T4", 2) >>
    /\ Finish("T4", "pass", "T5")
    /\ UNCHANGED << envVars, winVars, testVars, awaiting, mainWindow, tw >>

(* 'returns an empty display_id for window sources on Windows and Mac'
   (lines 49-61) *)

T5Start ==
    /\ UNCHANGED asserted
    /\ pc = "T5"
    /\ IF platform # "win32" /\ platform # "darwin"
       THEN /\ Finish("T5", "pass", "T6")
            /\ UNCHANGED << nextWin, alive, stack, destroyCalls, reqs,
                            awaiting, tw >>
       ELSE /\ tw' = nextWin
            /\ NewWindow(TRUE)
            /\ reqs' = Append(reqs, getSources(TypesOnly(<< "window" >>), "T5", 1))
            /\ awaiting' = Len(reqs) + 1
            /\ pc' = "T5a"
            /\ UNCHANGED outcome
    /\ UNCHANGED << envVars, focusQ, wFocused, testVars, mainWindow >>

\* The assertions of lines 57-60.
AllDisplayIdsEmpty(srcs) ==
    /\ srcs # << >>
    /\ \A i \in 1..Len(srcs) : srcs[i].display_id = << >>

T5Resume ==
    /\ pc = "T5a"
    /\ Settled(awaiting)
    /\ asserted' = IF Rejected(awaiting) THEN asserted
                   ELSE asserted \cup {"T5"}
    /\ IF Rejected(awaiting)
       THEN /\ Finish("T5", "fail", "T6")
            /\ UNCHANGED << alive, stack, focusQ, destroyCalls >>
       ELSE /\ Install(DestroyAll(<< tw >>, mainWindow, WinState, FALSE))
            /\ Finish("T5", IF AllDisplayIdsEmpty(reqs[awaiting].value)
                            THEN "pass" ELSE "fail", "T6")
    /\ reqs' = Consumed
    /\ awaiting' = 0
    /\ tw' = 0
    /\ UNCHANGED << envVars, nextWin, wFocused, testVars, mainWindow >>

(* 'returns display_ids matching the Screen API on Windows and Mac'
   (lines 63-79).  The it() nested at lines 74-78 is called while the runner
   already iterates its copy of the suite's tests: it changes nothing here. *)

T6Start ==
    /\ UNCHANGED asserted
    /\ pc = "T6"
    /\ IF platform # "win32" /\ platform # "darwin"
       THEN /\ Finish("T6", "pass", "T7")
            /\ UNCHANGED << reqs, awaiting, displaysSeen >>
       ELSE /\ displaysSeen' = displays
            /\ reqs' = Append(reqs, getSources(TypesOnly(<< "screen" >>), "T6", 1))
            /\ awaiting' = Len(reqs) + 1
            /\ pc' = "T6a"
            /\ UNCHANGED outcome
    /\ UNCHANGED << envVars, winVars, wList, sources, sources1,
                    mediaSourceId, canGoFurther, moved, mainWindow, tw >>

\* Variant: the display id is compared as a number, without toString().
DisplayIdsMatchNoToString(srcs, disp) ==
    /\ Len(srcs) = Len(disp)
    /\ \A i \in 1..Len(srcs) : srcs[i].display_id = << disp[i] >>

\* The comparison of lines 68-72.
DisplayIdsMatch(srcs, disp) ==
    /\ Len(srcs) = Len(disp)
    /\ \A i \in 1..Len(srcs) : srcs[i].display_id = NumToString(disp[i])

T6Resume ==
    /\ pc = "T6a"
    /\ Settled(awaiting)
    /\ asserted' = IF Rejected(awaiting) THEN asserted
                   ELSE asserted \cup {"T6"}
    /\ Finish("T6", IF /\ ~Rejected(awaiting)
                       /\ DisplayIdsMatch(reqs[awaiting].value, displaysSeen)
                    THEN "pass" ELSE "fail", "T7")
    /\ reqs' = Consumed
    /\ awaiting' = 0
    /\ displaysSeen' = << >>
    /\ UNCHANGED << envVars, winVars, wList, sources, sources1,
                    mediaSourceId, canGoFurther, moved, mainWindow, tw >>

(* 'disabling thumbnail should return empty images' (lines 81-99) *)

\* Variant: the script leaves thumbnailSize out.
T7OptionsNoSize == TypesOnly(<< "window", "screen" >>)

\* The options written in the script of lines 88-91.
T7Options == TypesAndThumb(<< "window", "screen" >>, Size(0, 0))

\* Lines 82-84: w2 is created hidden and shown.
T7Start ==
    /\ UNCHANGED asserted
    /\ pc = "T7"
    /\ tw' = nextWin
    /\ NewWindow(TRUE)
    /\ pc' = "T7s"
    /\ UNCHANGED << envVars, focusQ, wFocused, testVars, reqs, awaiting,
                    mainWindow, outcome >>

\* Lines 85-94: once 'show' was emitted, the query.
T7Issue ==
    /\ UNCHANGED asserted
    /\ pc = "T7s"
    /\ reqs' = Append(reqs, executeGetSources(T7Options, "T7", 1))
    /\ awaiting' = Len(reqs) + 1
    /\ pc' = "T7a"
    /\ UNCHANGED << envVars, winVars, testVars, mainWindow, tw, outcome >>

\* The .then of lines 91-93.
IsEmptiesOf(srcs) ==
    [ i \in 1..Len(srcs) |->
        srcs[i].thumbnail.ctor = "NativeImage" /\ srcs[i].thumbnail.isEmpty ]

\* The assertions of lines 97-98.
AllTrue(isEmpties) ==
    /\ isEmpties # << >>
    /\ \A i \in 1..Len(isEmpties) : isEmpties[i] = TRUE

T7Resume ==
    /\ UNCHANGED asserted
    /\ pc = "T7a"
    /\ Settled(awaiting)
    /\ IF Rejected(awaiting)
       THEN /\ Finish("T7", "fail", "T8")
            /\ UNCHANGED << alive, stack, focusQ, destroyCalls >>
       ELSE /\ Install(DestroyAll(<< tw >>, mainWindow, WinState, FALSE))
            /\ Finish("T7", IF AllTrue(IsEmptiesOf(reqs[awaiting].value))
                            THEN "pass" ELSE "fail", "T8")
    /\ reqs' = Consumed
    /\ awaiting' = 0
    /\ tw' = 0
    /\ UNCHANGED << envVars, nextWin, wFocused, testVars, mainWindow >>

(* 'getMediaSourceId should match DesktopCapturerSource.id' (lines 101-130) *)

\* Lines 102-106: w is created hidden, shown, and asked to take the focus.
T8Start ==
    /\ UNCHANGED asserted
    /\ pc = "T8"
    /\ tw' = nextWin
    /\ NewWindow(TRUE)
    /\ focusQ' = Append(focusQ, nextWin)
    /\ wFocused' = FALSE
    /\ pc' = "T8s"
    /\ UNCHANGED << envVars, testVars, reqs, awaiting, mainWindow, outcome >>

\* Variant: w.destroy() (line 115) comes before the query instead of after.
T8IssueAfterDestroy ==
    /\ UNCHANGED asserted
    /\ pc = "T8s"
    /\ wFocused
    /\ Install(DestroyAll(<< tw >>, mainWindow, WinState, FALSE))
    /\ mediaSourceId' = getMediaSourceId(tw)
    /\ reqs' = Append(reqs,
                 getSources(TypesAndThumb(<< "window" >>, Size(0, 0)), "T8", 1))
    /\ awaiting' = Len(reqs) + 1
    /\ pc' = "T8a"
    /\ UNCHANGED << envVars, nextWin, wFocused, wList, sources, sources1,
                    displaysSeen, canGoFurther, moved, mainWindow, tw,
                    outcome >>

\* Lines 107-114: once 'show' and 'focus' were emitted, the query.
T8Issue ==
    /\ UNCHANGED asserted
    /\ pc = "T8s"
    /\ wFocused
    /\ mediaSourceId' = getMediaSourceId(tw)
    /\ reqs' = Append(reqs,
                 getSources(TypesAndThumb(<< "window" >>, Size(0, 0)), "T8", 1))
    /\ awaiting' = Len(reqs) + 1
    /\ pc' = "T8a"
    /\ UNCHANGED << envVars, winVars, wList, sources, sources1, displaysSeen,
                    canGoFurther, moved, mainWindow, tw, outcome >>

\* The 'focus' event never comes: mocha's timeout ends the test, and w stays
\* open until closeAllWindows.
T8Timeout ==
    /\ pc = "T8s"
    /\ ~wFocused
    /\ tw \notin Range(focusQ)
    /\ Finish("T8", "timeout", "T9")
    /\ tw' = 0
    /\ UNCHANGED << envVars, winVars, testVars, reqs, awaiting, mainWindow,
                    asserted >>

\* The checks of lines 120-129 on the list: "skip", "pass" or "fail".
T8Verdict(srcs, id) ==
    IF platform = "linux" /\ Len(srcs) = 0 THEN "skip"
    ELSE IF srcs # << >> /\ \E i \in 1..Len(srcs) : srcs[i].id = id
    THEN "pass" ELSE "fail"

\* Lines 111-129.
T8Resume ==
    /\ UNCHANGED asserted
    /\ pc = "T8a"
    /\ Settled(awaiting)
    /\ IF Rejected(awaiting)
       THEN /\ Finish("T8", "fail", "T9")
            /\ UNCHANGED << alive, stack, focusQ, destroyCalls >>
       ELSE /\ Install(DestroyAll(<< tw >>, mainWindow, WinState, FALSE))
            /\ Finish("T8", T8Verdict(reqs[awaiting].value, mediaSourceId), "T9")
    /\ reqs' = Consumed
    /\ awaiting' = 0
    /\ tw' = 0
    /\ mediaSourceId' = << >>
    /\ UNCHANGED << envVars, nextWin, wFocused, wList, sources, sources1,
                    displaysSeen, canGoFurther, moved, mainWindow >>

(* 'moveAbove should move the window at the requested place' (lines 132-221) *)

\* Lines 181-184.
CanGoFurther(srcs, wl) ==
    \A index \in 1..Len(srcs) :
        srcs[index].id = getMediaSourceId(Reverse(wl)[index])

\* The loop of lines 194-199, from `index` on.
RECURSIVE MoveEach(_, _, _)
MoveEach(stk, wl, index) ==
    IF index > Len(wl) THEN stk
    ELSE MoveEach(IF index < Len(wl)
                  THEN MoveAboveStack(stk, wl[index],
                                      getMediaSourceId(wl[index + 1]))
                  ELSE stk,
                  wl, index + 1)

\* The comparison of lines 207-213.
SameOrder(srcs, wl) ==
    /\ Len(srcs) = MAX_WIN
    /\ Len(srcs) = Len(wl)
    /\ \A index \in 1..Len(srcs) : srcs[index].id = getMediaSourceId(wl[index])

\* The cleanup of lines 163-168 on the Linux path that found no source.
EarlyCleanup(wl, main, st, throws) == DestroyAll(wl, main, st, throws)

\* The finally block (lines 214-220) run on window state st.
Finally(wl, main, st, throws) ==
    DestroyAll(wl, main, [st EXCEPT !.threw = FALSE], throws)

\* Lines 135-158: three more windows, focus() on all four (the promises
\* wFocused of line 147 are awaited by nothing that the test waits for), and
\* the first query.
T9Start ==
    /\ UNCHANGED asserted
    /\ pc = "T9"
    /\ wList' = << mainWindow >>
                \o [ i \in 1..(MAX_WIN - 1) |-> nextWin + i - 1 ]
    /\ nextWin' = nextWin + MAX_WIN - 1
    /\ alive' = alive \cup { nextWin + i - 1 : i \in 1..(MAX_WIN - 1) }
    /\ destroyCalls' = destroyCalls \o [ i \in 1..(MAX_WIN - 1) |-> 0 ]
    /\ stack' = [ i \in 1..(MAX_WIN - 1) |-> nextWin + MAX_WIN - 1 - i ] \o stack
    /\ focusQ' = focusQ \o wList'
    /\ reqs' = Append(reqs,
                 getSources(TypesAndThumb(<< "window" >>, Size(0, 0)), "T9", 1))
    /\ awaiting' = Len(reqs) + 1
    /\ pc' = "T9a"
    /\ UNCHANGED << envVars, wFocused, sources, sources1, mediaSourceId,
                    displaysSeen, canGoFurther, moved, mainWindow, tw,
                    outcome >>

\* Lines 155-204, and the finally block on the paths that leave the test.
T9Resume1 ==
    /\ UNCHANGED asserted
    /\ pc = "T9a"
    /\ Settled(awaiting)
    /\ \E throws \in BOOLEAN :
        LET got   == reqs[awaiting].value
            cut   == Splice(got, MAX_WIN)
            rej   == Rejected(awaiting)
            skip  == ~rej /\ platform = "linux" /\ Len(got) = 0
            bad   == rej \/ got = << >> \/ Len(got) < MAX_WIN
            go    == ~skip /\ ~bad /\ CanGoFurther(cut, wList)
            st    == Finally(wList, mainWindow,
                        IF skip
                        THEN EarlyCleanup(wList, mainWindow, WinState, throws)
                        ELSE WinState, throws)
        IN  /\ throws => skip
            /\ IF go
               THEN /\ sources' = cut
                    /\ sources1' = cut
                    /\ canGoFurther' = "yes"
                    /\ stack' = MoveEach(stack, wList, 1)
                    /\ moved' = TRUE
                    /\ reqs' = Append(Consumed,
                          getSources(TypesAndThumb(<< "window" >>, Size(0, 0)),
                                     "T9", 2))
                    /\ awaiting' = Len(reqs)
                    /\ pc' = "T9b"
                    /\ UNCHANGED << alive, focusQ, destroyCalls, outcome >>
               ELSE /\ sources' = IF rej THEN sources
                                  ELSE IF skip \/ bad THEN got ELSE cut
                    /\ sources1' = IF ~skip /\ ~bad THEN cut ELSE sources1
                    /\ canGoFurther' = IF ~skip /\ ~bad THEN "no"
                                       ELSE canGoFurther
                    /\ Install(st)
                    /\ Finish("T9",
                          IF st.threw \/ rej THEN "fail"
                          ELSE IF skip THEN "skip"
                          ELSE IF bad THEN "fail" ELSE "pass", "after")
                    /\ reqs' = Consumed
                    /\ awaiting' = 0
                    /\ UNCHANGED moved
    /\ UNCHANGED << envVars, nextWin, wFocused, wList, mediaSourceId,
                    displaysSeen, mainWindow, tw >>

\* Lines 201-220.
T9Resume2 ==
    /\ UNCHANGED asserted
    /\ pc = "T9b"
    /\ Settled(awaiting)
    /\ LET st == Finally(wList, mainWindow, WinState, FALSE)
       IN  /\ sources' = IF Rejected(awaiting) THEN sources
                         ELSE Splice(reqs[awaiting].value, MAX_WIN)
           /\ Install(st)
           /\ Finish("T9",
                 IF ~Rejected(awaiting) /\ SameOrder(sources', wList)
                 THEN "pass" ELSE "fail", "after")
    /\ reqs' = Consumed
    /\ awaiting' = 0
    /\ UNCHANGED << envVars, nextWin, wFocused, wList, sources1,
                    mediaSourceId, displaysSeen, canGoFurther, moved,
                    mainWindow, tw >>

\* after(closeAllWindows) (line 15): every window still open is closed.
After ==
    /\ UNCHANGED asserted
    /\ pc = "after"
    /\ stack' = SelectSeq(stack, LAMBDA x : x \notin alive)
    /\ alive' = {}
    /\ focusQ' = << >>
    /\ pc' = "done"
    /\ UNCHANGED << envVars, nextWin, wFocused, destroyCalls, testVars,
                    reqs, awaiting, mainWindow, tw, outcome >>

----------------------------------------------------------------------------
(* The engine and the window system at work *)

\* The engine answers call i: malformed options reject with 'Invalid
\* options'; valid ones resolve with the sources as they are now.  On Linux
\* the window part may come back empty (lines 50, 117-120, 160-163).
EngineSettle(i, noWindows) ==
    /\ UNCHANGED asserted
    /\ reqs[i].state = "pending"
    /\ noWindows => platform = "linux"
    /\ reqs' = [reqs EXCEPT ![i] =
          IF ~isValid(reqs[i].opts)
          THEN [@ EXCEPT !.state = "rejected", !.error = "Invalid options"]
          ELSE [@ EXCEPT !.state = "resolved",
                         !.value = SourceList(reqs[i].opts,
                                      IF noWindows THEN << >>
                                      ELSE WindowSources(reqs[i].opts, stack),
                                      platform, displays)]]
    /\ UNCHANGED << envVars, winVars, testVars, pc, awaiting, mainWindow, tw,
                    outcome >>

Settle == \E i \in 1..Len(reqs) : \E noWindows \in BOOLEAN :
              EngineSettle(i, noWindows)

\* The window system serves the oldest focus() request: the window is shown
\* in the foreground (line 145: "Show and focus") and 'focus' is emitted,
\* which resolves the promise the running test holds for it.
ApplyFocus ==
    /\ UNCHANGED asserted
    /\ focusQ # << >>
    /\ focusQ' = Tail(focusQ)
    /\ stack' = IF Head(focusQ) \in alive
                THEN ShowOnTop(stack, Head(focusQ)) ELSE stack
    /\ wFocused' = (wFocused \/ (pc = "T8s" /\ Head(focusQ) = tw))
    /\ UNCHANGED << envVars, nextWin, alive, destroyCalls, testVars, reqs,
                    pc, awaiting, mainWindow, tw, outcome >>

\* The window system does not honour the oldest focus() request (lines
\* 186-188: focus is not reliable in every environment).
DropFocus ==
    /\ focusQ # << >>
    /\ focusQ' = Tail(focusQ)
    /\ UNCHANGED << envVars, nextWin, alive, stack, wFocused, destroyCalls,
                    testVars, reqs, pc, awaiting, mainWindow, tw, outcome,
                    asserted >>

Next ==
    \/ SuiteDisabled
    \/ Before
    \/ T1Issue
    \/ T1Resume
    \/ T2
    \/ T3Issue
    \/ T3Resume1
    \/ T3Resume2
    \/ T4
    \/ T5Start
    \/ T5Resume
    \/ T6Start
    \/ T6Resume
    \/ T7Start
    \/ T7Issue
    \/ T7Resume
    \/ T8Start
    \/ T8Issue
    \/ T8Timeout
    \/ T8Resume
    \/ T9Start
    \/ T9Resume1
    \/ T9Resume2
    \/ After
    \/ Settle
    \/ ApplyFocus
    \/ DropFocus

Spec == Init /\ [][Next]_vars

----------------------------------------------------------------------------
(* Properties *)

Ids(srcs) == [ i \in 1..Len(srcs) |-> srcs[i].id ]

OwnIds(wl) == [ i \in 1..Len(wl) |-> getMediaSourceId(wl[i]) ]

AwaitedSettled(at) == pc = at /\ Settled(awaiting)

\* C1: in the moveAbove test, once wList[i].moveAbove(wList[i+1]) was called
\* for i = 0, 1, 2 on a stacking that was wList reversed, the first MAX_WIN
\* sources of the second query are wList[0], ..., wList[3] in that order.
C1_SortedForegroundToBackground ==
    (moved /\ outcome["T9"] # "notrun" /\ Len(sources) = MAX_WIN)
        => Ids(sources) = OwnIds(wList)

\* C2: the call with the bare array never resolves; when it settles it is
\* rejected with 'Invalid options', and it holds no source list.
C2_InvalidOptionsRejected ==
    \A i \in 1..Len(reqs) :
        reqs[i].by = "T2" =>
            /\ reqs[i].state \in {"pending", "rejected"}
            /\ reqs[i].state = "rejected" => reqs[i].error = "Invalid options"
            /\ reqs[i].value = << >>

C2_Witness ==
    \E i \in 1..Len(reqs) :
        /\ reqs[i].by = "T2"
        /\ reqs[i].state = "rejected"
        /\ reqs[i].error = "Invalid options"

\* C3: of the two overlapping calls of T4 neither is ever rejected, in
\* whatever order the engine answers them, and each resolves with sources of
\* the type it asked for.
C3_OverlappingCallsNotRejected ==
    \A i \in 1..Len(reqs) :
        reqs[i].by = "T4" =>
            /\ reqs[i].state # "rejected"
            /\ \A k \in 1..Len(reqs[i].value) :
                  reqs[i].value[k].id[1] \in Range(reqs[i].opts.types)

\* The second call is answered while the first is still in flight.
C3_Witness ==
    \E i, j \in 1..Len(reqs) :
        /\ reqs[i].by = "T4" /\ reqs[i].no = 1 /\ reqs[i].state = "pending"
        /\ reqs[j].by = "T4" /\ reqs[j].no = 2 /\ reqs[j].state = "resolved"
        /\ reqs[j].value # << >>

\* C4: each of the sequential calls of T1 and T3 with types window and screen
\* resolves with a non-empty list; no later call is rejected or left empty.
C4_SequentialCallsNonEmpty ==
    /\ \A at \in {"T1a", "T3a", "T3b"} :
          AwaitedSettled(at) =>
              /\ reqs[awaiting].state = "resolved"
              /\ reqs[awaiting].value # << >>
    /\ outcome["T1"] # "fail"
    /\ outcome["T3"] # "fail"

\* The second call of T3 (the third call in a row) has resolved non-empty.
C4_Witness ==
    /\ AwaitedSettled("T3b")
    /\ reqs[awaiting].no = 2
    /\ reqs[awaiting].value # << >>
    /\ outcome["T1"] = "pass"

\* C5: the list of the query T8 makes while its shown and focused window w is
\* not destroyed holds a source whose id is w.getMediaSourceId(), unless the
\* platform is Linux and the list is empty, and then the test skips.
C5_SourceIdMatchesWindow ==
    /\ AwaitedSettled("T8a") =>
          /\ reqs[awaiting].state = "resolved"
          /\ \/ \E k \in 1..Len(reqs[awaiting].value) :
                   reqs[awaiting].value[k].id = getMediaSourceId(tw)
             \/ platform = "linux" /\ reqs[awaiting].value = << >>
    /\ outcome["T8"] # "fail"
    /\ outcome["T8"] = "skip" => platform = "linux"

C5_Witness ==
    /\ AwaitedSettled("T8a")
    /\ tw \in alive
    /\ \E k \in 1..Len(reqs[awaiting].value) :
          reqs[awaiting].value[k].id = getMediaSourceId(tw)

C8_ZeroSizeThumbnailsEmpty ==
    /\ AwaitedSettled("T7a") =>
          /\ reqs[awaiting].state = "resolved"
          /\ reqs[awaiting].value # << >>
          /\ \A k \in 1..Len(reqs[awaiting].value) :
                /\ reqs[awaiting].value[k].thumbnail.ctor = "NativeImage"
                /\ reqs[awaiting].value[k].thumbnail.isEmpty
    /\ outcome["T7"] # "fail"

\* The list holds window sources and screen sources.
C8_Witness ==
    /\ AwaitedSettled("T7a")
    /\ \E k \in 1..Len(reqs[awaiting].value) :
          reqs[awaiting].value[k].id[1] = "window"
    /\ \E k \in 1..Len(reqs[awaiting].value) :
          reqs[awaiting].value[k].id[1] = "screen"

\* C9: after focus() was called on wList[0], ..., wList[3], the first
\* MAX_WIN sources of the first query of the moveAbove test are wList in
\* reverse order (the empty list on Linux aside), although the test does not
\* wait for the 'focus' events.
C9_FirstQueryReversed ==
    (/\ AwaitedSettled("T9a")
     /\ ~(platform = "linux" /\ reqs[awaiting].value = << >>))
        => /\ Len(reqs[awaiting].value) >= MAX_WIN
           /\ Ids(Splice(reqs[awaiting].value, MAX_WIN)) = OwnIds(Reverse(wList))

\* C10: when the moveAbove test is over, destroy() has been called exactly
\* once on each window the test created and never on mainWindow.
C10_EachWindowDestroyedOnce ==
    outcome["T9"] # "notrun" =>
        /\ \A k \in 2..Len(wList) : destroyCalls[wList[k]] = 1
        /\ destroyCalls[mainWindow] = 0

====
